---- MODULE Spec2Model ----
(***************************************************************************)
(* The document-job pipeline of document-ai-backend: the JobsService and    *)
(* JobsController (job rows, ownership filter, status and download reads),  *)
(* the SqsProducer, the SQS queue with its visibility lease and dead-letter *)
(* queue, and the SqsConsumer (pollMessages / processMessage).              *)
(*                                                                         *)
(* Strings that the code takes apart (the input key) are sequences of       *)
(* tokens, "." being the extension delimiter; other strings are sequences   *)
(* of one token.  A column that is NULL in the jobs table holds NULL here,  *)
(* and a lookup that finds no row gives NoRow.                              *)
(***************************************************************************)
EXTENDS Integers, Sequences, FiniteSets, TLC

\* ---------------------------------------------------------------- bounds
\* Rows the jobs table may hold in a run.
MaxJobs == 2

\* Authenticated principals (the userId the JWT guard puts on the request).
Users == {"u1", "u2"}

\* Consumer processes polling the same queue: one, or two side by side.
OneConsumer == {"w1"}
TwoConsumers == {"w1", "w2"}

\* Input keys a client may send.
Keys == { <<"uploads/t-invoice", ".", "pdf">> }

\* Values a request body may carry for documentType: one of the enumeration,
\* one outside it.
BodyDocumentTypes == {"EXPENSE", "OTHER"}

\* Input keys for the derivation of inputFileType: with one ".", with none,
\* ending in one, with two, starting with one.
ExtensionKeys ==
  { <<"uploads/abc-invoice", ".", "pdf">>,
    <<"uploads/abc-invoice">>,
    <<"uploads/abc-invoice", ".">>,
    <<"uploads/abc", ".", "tar", ".", "gz">>,
    <<".", "env">> }

\* Upload grants issued in a run, and the bodies of the requests for them.
MaxGrants == 3
FileNames == {"r.jpg", "s.pdf", "scan"}
ContentTypes == {"image/jpeg", "application/pdf"}

\* ------------------------------------------------------- program constants
GUEST == "guest"
NULL == <<>>
NONE == 0
NoUser == ""
DocumentTypes == {"EXPENSE", "HR"}
MaxReceiveCount == 3
ExpiresIn == 300
UploadExpiresIn == 300
JobIds == 1 .. MaxJobs

PENDING == "PENDING"
PROCESSING == "PROCESSING"
COMPLETED == "COMPLETED"
FAILED == "FAILED"

VARIABLES
  jobs,      \* the jobs table: id -> row
  queue,     \* the SQS queue: jobId of the body -> message
  workers,   \* each consumer's position in pollMessages / processMessage
  s3,        \* keys of the objects stored under outputs/
  sent,      \* ids whose Work Message the producer has sent
  resp,      \* the response of the last HTTP request
  grants     \* the keys of the upload grants issued so far

vars == <<jobs, queue, workers, s3, sent, resp, grants>>

\* ---------------------------------------------------------------- helpers
RECURSIVE LastDot(_, _)
\* Index of the last "." of s at or before i; 0 when there is none.
LastDot(s, i) ==
  IF i = 0 THEN 0
  ELSE IF s[i] = "." THEN i
  ELSE LastDot(s, i - 1)

\* inputFileKey.split('.').pop(): what follows the last ".", the whole
\* string when it has no ".".
SplitPop(s) == SubSeq(s, LastDot(s, Len(s)) + 1, Len(s))

\* ... || 'unknown': the empty string is falsy.
Extension(key) == IF SplitPop(key) = <<>> THEN <<"unknown">> ELSE SplitPop(key)

\* CreateJobDto without its @IsIn on documentType.
CreateJobDtoValidWithoutIsIn(body) == body.inputFileKey # <<>>

\* class-validator on CreateJobDto: @IsString @IsNotEmpty inputFileKey,
\* @IsIn(['EXPENSE','HR']) documentType.
CreateJobDtoValid(body) ==
  /\ body.inputFileKey # <<>>
  /\ body.documentType \in DocumentTypes

\* The validation pipe: a body that fails the DTO's rules is answered 400
\* and the handler is not called.
ValidationPipeRejects(body) == ~CreateJobDtoValid(body)

\* An id generator that may return an id it returned before.
UuidRepeating == JobIds

\* uuid(): a value no earlier call returned.
Uuid == JobIds \ DOMAIN jobs

\* The owner column without the 'guest' fallback.
OwnerOfWithoutFallback(userId) == userId

\* params.userId || 'guest'
OwnerOf(userId) == IF userId = NoUser THEN GUEST ELSE userId

\* jobRepository.create({...}) of createJob.
NewJob(id, userId, inputFileKey, documentType) ==
  [ id            |-> id,
    userId        |-> OwnerOf(userId),
    inputFileKey  |-> inputFileKey,
    inputFileType |-> Extension(inputFileKey),
    documentType  |-> documentType,
    status        |-> PENDING,
    outputFileKey |-> NULL,
    errorMessage  |-> NULL ]

\* A save that leaves the new row alone in the table.
SaveReplacingTable(table, job) == [i \in {job.id} |-> job]

\* jobRepository.save(job): insert, or overwrite the row with that id.
Save(table, job) ==
  [i \in DOMAIN table \cup {job.id} |-> IF i = job.id THEN job ELSE table[i]]

\* The payload createJob hands to SqsProducer.sendJobMessage.
Payload(job) ==
  [ jobId        |-> job.id,
    inputFileKey |-> job.inputFileKey,
    documentType |-> job.documentType ]

\* JSON.stringify(payload): the text of the object, its members in the order
\* the payload literal names them.
JsonStringify(payload) ==
  << "jobId", payload.jobId,
     "inputFileKey", payload.inputFileKey,
     "documentType", payload.documentType >>

\* JSON.parse(message.Body) as the consumer reads it: the members by name.
JsonParse(text) ==
  LET Names == {i \in DOMAIN text : i % 2 = 1}
      Member(name) == text[(CHOOSE i \in Names : text[i] = name) + 1] IN
  [ jobId        |-> Member("jobId"),
    inputFileKey |-> Member("inputFileKey"),
    documentType |-> Member("documentType") ]

\* SendMessageCommand: a new visible message, never received; copies counts
\* the messages sent with this body.
NewMessage(payload) ==
  [ body |-> JsonStringify(payload), state |-> "visible", receiveCount |-> 0,
    copies |-> 1 ]

\* sqsClient.send(command): the queue gains the message; a second send of the
\* same body is a second message.
Enqueue(q, payload) ==
  [i \in DOMAIN q \cup {payload.jobId} |->
     IF i # payload.jobId THEN q[i]
     ELSE IF i \in DOMAIN q THEN [q[i] EXCEPT !.copies = @ + 1]
     ELSE NewMessage(payload)]

IdleWorker == [pc |-> "idle", jobId |-> NONE, handle |-> 0, err |-> NULL, dup |-> FALSE]

\* ------------------------------------------------------------- submission
\* The 500 of a handler whose promise rejects.
InternalError == [statusCode |-> 500, message |-> "Internal server error"]

\* createJob undoing its save when the send throws.
ServiceCreateJobRollingBack(userId, body, id, sendOk) ==
  LET job == NewJob(id, userId, body.inputFileKey, body.documentType) IN
  /\ IF sendOk
       THEN /\ jobs' = Save(jobs, job)
            /\ queue' = Enqueue(queue, Payload(job))
            /\ sent' = sent \cup {job.id}
            /\ resp' = [jobId |-> job.id, status |-> job.status]
       ELSE /\ UNCHANGED <<jobs, queue, sent>>
            /\ resp' = InternalError
  /\ UNCHANGED <<workers, s3, grants>>

\* createJob sending its message a second time after the first succeeded.
ServiceCreateJobSendingTwice(userId, body, id, sendOk) ==
  LET job == NewJob(id, userId, body.inputFileKey, body.documentType) IN
  /\ jobs' = Save(jobs, job)
  /\ IF sendOk
       THEN /\ queue' = Enqueue(Enqueue(queue, Payload(job)), Payload(job))
            /\ sent' = sent \cup {job.id}
            /\ resp' = [jobId |-> job.id, status |-> job.status]
       ELSE /\ UNCHANGED <<queue, sent>>
            /\ resp' = InternalError
  /\ UNCHANGED <<workers, s3, grants>>

\* createJob sending its message before the save, and the save failing.
ServiceCreateJobSendingBeforeSave(userId, body, id, saveOk) ==
  LET job == NewJob(id, userId, body.inputFileKey, body.documentType) IN
  /\ queue' = Enqueue(queue, Payload(job))
  /\ sent' = sent \cup {job.id}
  /\ IF saveOk
       THEN /\ jobs' = Save(jobs, job)
            /\ resp' = [jobId |-> job.id, status |-> job.status]
       ELSE /\ UNCHANGED jobs
            /\ resp' = InternalError
  /\ UNCHANGED <<workers, s3, grants>>

\* JobsService.createJob: create, save, then send; a send that throws leaves
\* the saved row and the request fails.
ServiceCreateJob(userId, body, id, sendOk) ==
  LET job == NewJob(id, userId, body.inputFileKey, body.documentType) IN
  /\ jobs' = Save(jobs, job)
  /\ IF sendOk
       THEN /\ queue' = Enqueue(queue, Payload(job))
            /\ sent' = sent \cup {job.id}
            /\ resp' = [jobId |-> job.id, status |-> job.status]
       ELSE /\ UNCHANGED <<queue, sent>>
            /\ resp' = InternalError
  /\ UNCHANGED <<workers, s3, grants>>

\* The 400 of a rejected body: its message names the properties that failed.
BadRequest(body) ==
  [ statusCode |-> 400,
    message |-> (IF body.inputFileKey = <<>> THEN {"inputFileKey"} ELSE {})
                  \cup (IF body.documentType \in DocumentTypes THEN {}
                        ELSE {"documentType"}) ]

\* POST /jobs and POST /jobs/guest (no userId).
PostJob(userId, body) ==
  IF ValidationPipeRejects(body)
    THEN /\ resp' = BadRequest(body)
         /\ UNCHANGED <<jobs, queue, workers, s3, sent, grants>>
    ELSE /\ Cardinality(DOMAIN jobs) < MaxJobs
         /\ \E id \in Uuid, sendOk \in BOOLEAN :
              ServiceCreateJob(userId, body, id, sendOk)

Bodies == [inputFileKey : Keys \cup {<<>>}, documentType : BodyDocumentTypes]

createJob == \E u \in Users, body \in Bodies : PostJob(u, body)

createGuestJob == \E body \in Bodies : PostJob(NoUser, body)

\* ------------------------------------------------------------ job store
\* An update that writes the whole row back with the default owner.
UpdateJobStatusResettingOwner(table, jobId, status, extra) ==
  IF jobId \notin DOMAIN table THEN table
  ELSE [table EXCEPT ![jobId].status = status, ![jobId].userId = GUEST]

\* JobsService.updateJobStatus: jobRepository.update(jobId, {status, ...extra}):
\* the columns named are written, the others keep their values; no row, no
\* change.
UpdateJobStatus(table, jobId, status, extra) ==
  IF jobId \notin DOMAIN table THEN table
  ELSE [table EXCEPT
          ![jobId].status = status,
          ![jobId].outputFileKey =
             IF "outputFileKey" \in DOMAIN extra THEN extra.outputFileKey ELSE @,
          ![jobId].errorMessage =
             IF "errorMessage" \in DOMAIN extra THEN extra.errorMessage ELSE @]

NoExtra == <<>>

\* ------------------------------------------------------------------ queue
Terminal(status) == status \in {COMPLETED, FAILED}

\* A receive on a queue without a redrive policy.
ReceiveUnbounded(w, m) ==
  /\ workers[w].pc = "idle"
  /\ m \in DOMAIN queue
  /\ queue[m].state = "visible"
  /\ queue' = [queue EXCEPT ![m].state = "inflight", ![m].receiveCount = @ + 1]
  /\ workers' = [workers EXCEPT ![w] =
       [ pc     |-> "markProcessing",
         jobId  |-> JsonParse(queue[m].body).jobId,
         handle |-> queue[m].receiveCount + 1,
         err    |-> NULL,
         dup    |-> m \in DOMAIN jobs /\ Terminal(jobs[m].status) ]]
  /\ UNCHANGED <<jobs, s3, sent, resp, grants>>

\* A receive that takes the message off the queue at once.
ReceiveRemoving(w, m) ==
  /\ workers[w].pc = "idle"
  /\ m \in DOMAIN queue
  /\ queue[m].state = "visible"
  /\ queue[m].receiveCount < MaxReceiveCount
  /\ queue' = [i \in DOMAIN queue \ {m} |-> queue[i]]
  /\ workers' = [workers EXCEPT ![w] =
       [ pc     |-> "markProcessing",
         jobId  |-> JsonParse(queue[m].body).jobId,
         handle |-> queue[m].receiveCount + 1,
         err    |-> NULL,
         dup    |-> m \in DOMAIN jobs /\ Terminal(jobs[m].status) ]]
  /\ UNCHANGED <<jobs, s3, sent, resp, grants>>

\* ReceiveMessageCommand (MaxNumberOfMessages: 1) of pollMessages: a visible
\* message becomes invisible for the visibility timeout, its receive count
\* goes up, and the worker holds a receipt handle of this receive.
Receive(w, m) ==
  /\ workers[w].pc = "idle"
  /\ m \in DOMAIN queue
  /\ queue[m].state = "visible"
  /\ queue[m].receiveCount < MaxReceiveCount
  /\ queue' = [queue EXCEPT ![m].state = "inflight", ![m].receiveCount = @ + 1]
  /\ workers' = [workers EXCEPT ![w] =
       [ pc     |-> "markProcessing",
         jobId  |-> JsonParse(queue[m].body).jobId,
         handle |-> queue[m].receiveCount + 1,
         err    |-> NULL,
         dup    |-> m \in DOMAIN jobs /\ Terminal(jobs[m].status) ]]
  /\ UNCHANGED <<jobs, s3, sent, resp, grants>>

\* The visibility timeout (300 s) of a received message runs out before it
\* was deleted: it is visible again.
LeaseExpire(m) ==
  /\ m \in DOMAIN queue
  /\ queue[m].state = "inflight"
  /\ queue' = [queue EXCEPT ![m].state = "visible"]
  /\ UNCHANGED <<jobs, workers, s3, sent, resp, grants>>

\* Redrive policy: a message received MaxReceiveCount times and visible
\* again goes to document-processing-dlq instead of to a consumer.
DeadLetter(m) ==
  /\ m \in DOMAIN queue
  /\ queue[m].state = "visible"
  /\ queue[m].receiveCount >= MaxReceiveCount
  /\ queue' = [queue EXCEPT ![m].state = "dlq"]
  /\ UNCHANGED <<jobs, workers, s3, sent, resp, grants>>

\* A delete that the queue drops.
DeleteMessageIgnored(q, m, handle) == q

\* DeleteMessageCommand with a receipt handle: removes the message when the
\* handle is the one of its latest receive (ReceiptHandleIsInvalid otherwise).
DeleteMessage(q, m, handle) ==
  IF m \in DOMAIN q /\ q[m].state # "dlq" /\ q[m].receiveCount = handle
    THEN [i \in DOMAIN q \ {m} |-> q[i]]
    ELSE q

\* --------------------------------------------------------------- consumer
OutputKey(jobId) == <<"outputs/", ToString(jobId), "-result.xlsx">>

Goto(w, pc) == workers' = [workers EXCEPT ![w].pc = pc]

Throw(w, message) == workers' = [workers EXCEPT ![w].pc = "markFailed", ![w].err = message]

\* try { await JobsService.updateJobStatus(jobId, 'PROCESSING')
MarkProcessing(w, ok) ==
  /\ workers[w].pc = "markProcessing"
  /\ IF ok
       THEN /\ jobs' = UpdateJobStatus(jobs, workers[w].jobId, PROCESSING, NoExtra)
            /\ Goto(w, "download")
       ELSE /\ Throw(w, <<"DB error">>)
            /\ UNCHANGED jobs
  /\ UNCHANGED <<queue, s3, sent, resp, grants>>

\* downloadFromS3, TextractService.processDocument, ExcelExporter.convert:
\* each returns or throws.
ExternalCall(w, pc, next, ok, message) ==
  /\ workers[w].pc = pc
  /\ IF ok THEN Goto(w, next) ELSE Throw(w, message)
  /\ UNCHANGED <<jobs, queue, s3, sent, resp, grants>>

Download(w, ok) == ExternalCall(w, "download", "textract", ok, <<"S3 error">>)
Textract(w, ok) == ExternalCall(w, "textract", "convert", ok, <<"Textract error">>)
Convert(w, ok) == ExternalCall(w, "convert", "upload", ok, <<"Excel error">>)

\* An upload that reports success without storing the object.
UploadWithoutStore(w, ok) ==
  /\ workers[w].pc = "upload"
  /\ IF ok THEN Goto(w, "markCompleted") ELSE Throw(w, <<"S3 error">>)
  /\ UNCHANGED <<jobs, queue, s3, sent, resp, grants>>

\* await uploadToS3(`outputs/${jobId}-result.xlsx`, excelBuffer)
Upload(w, ok) ==
  /\ workers[w].pc = "upload"
  /\ IF ok
       THEN /\ s3' = s3 \cup {OutputKey(workers[w].jobId)}
            /\ Goto(w, "markCompleted")
       ELSE /\ Throw(w, <<"S3 error">>)
            /\ UNCHANGED s3
  /\ UNCHANGED <<jobs, queue, sent, resp, grants>>

\* await JobsService.updateJobStatus(jobId, 'COMPLETED', {outputFileKey}) }
MarkCompleted(w, ok) ==
  /\ workers[w].pc = "markCompleted"
  /\ IF ok
       THEN /\ jobs' = UpdateJobStatus(jobs, workers[w].jobId, COMPLETED,
                          [outputFileKey |-> OutputKey(workers[w].jobId)])
            /\ Goto(w, "delete")
       ELSE /\ Throw(w, <<"DB error">>)
            /\ UNCHANGED jobs
  /\ UNCHANGED <<queue, s3, sent, resp, grants>>

\* A catch block that swallows the error without recording it.
MarkFailedWithoutWrite(w) ==
  /\ workers[w].pc = "markFailed"
  /\ workers' = [workers EXCEPT ![w].pc = "delete"]
  /\ UNCHANGED <<jobs, queue, s3, sent, resp, grants>>

\* A catch block that rethrows: nothing is recorded and the message stays
\* unacknowledged for a redelivery.
MarkFailedRetrying(w) ==
  /\ workers[w].pc = "markFailed"
  /\ workers' = [workers EXCEPT ![w] = IdleWorker]
  /\ UNCHANGED <<jobs, queue, s3, sent, resp, grants>>

\* catch (error) { await JobsService.updateJobStatus(jobId, 'FAILED',
\*                   {errorMessage: error.message}) }
MarkFailed(w) ==
  /\ workers[w].pc = "markFailed"
  /\ jobs' = UpdateJobStatus(jobs, workers[w].jobId, FAILED,
                             [errorMessage |-> workers[w].err])
  /\ Goto(w, "delete")
  /\ UNCHANGED <<queue, s3, sent, resp, grants>>

\* pollMessages, after processMessage returned: delete the message, poll again.
Delete(w) ==
  /\ workers[w].pc = "delete"
  /\ queue' = DeleteMessage(queue, workers[w].jobId, workers[w].handle)
  /\ workers' = [workers EXCEPT ![w] = IdleWorker]
  /\ UNCHANGED <<jobs, s3, sent, resp, grants>>

\* The consumer process dies (or an await outside the try rejects) while it
\* holds a message, and a new one starts polling: the message stays invisible
\* until its lease runs out.
Crash(w) ==
  /\ workers[w].pc # "idle"
  /\ workers' = [workers EXCEPT ![w] = IdleWorker]
  /\ UNCHANGED <<jobs, queue, s3, sent, resp, grants>>

WorkerStep(w) ==
  \/ \E ok \in BOOLEAN : MarkProcessing(w, ok)
  \/ \E ok \in BOOLEAN : Download(w, ok)
  \/ \E ok \in BOOLEAN : Textract(w, ok)
  \/ \E ok \in BOOLEAN : Convert(w, ok)
  \/ \E ok \in BOOLEAN : Upload(w, ok)
  \/ \E ok \in BOOLEAN : MarkCompleted(w, ok)
  \/ MarkFailed(w)
  \/ Delete(w)

\* getJobById without the userId in the where clause.
getJobByIdUnfiltered(jobId, userId) ==
  IF jobId \in DOMAIN jobs THEN jobs[jobId] ELSE [null |-> TRUE]

\* ------------------------------------------------------------------ reads
\* JobsService.getJobById: with a userId the row must carry it, without one
\* the id alone decides.  findOne gives the row or null.
NoRow == [null |-> TRUE]

\* getJobById letting a principal read the rows of 'guest' as well.
getJobByIdGuestReadable(jobId, userId) ==
  IF jobId \in DOMAIN jobs
       /\ (userId = NoUser \/ jobs[jobId].userId \in {userId, GUEST})
    THEN jobs[jobId] ELSE NoRow

getJobById(jobId, userId) ==
  IF userId # NoUser
    THEN IF jobId \in DOMAIN jobs /\ jobs[jobId].userId = userId
           THEN jobs[jobId] ELSE NoRow
    ELSE IF jobId \in DOMAIN jobs THEN jobs[jobId] ELSE NoRow

NotFound == [statusCode |-> 404, message |-> "Job not found"]

\* job.errorMessage || 'Processing failed'
ErrorText(job) ==
  IF job.errorMessage = NULL THEN <<"Processing failed">> ELSE job.errorMessage

\* The status body reporting a failed job under a fifth status name.
StatusResponseWithErrorStatus(job) ==
  IF job = NoRow THEN NotFound
  ELSE IF job.status = FAILED
    THEN [jobId |-> job.id, status |-> "ERROR", error |-> ErrorText(job)]
    ELSE [jobId |-> job.id, status |-> job.status]

\* The body of getJobStatus and of getGuestJobStatus after the lookup.
StatusResponse(job) ==
  IF job = NoRow THEN NotFound
  ELSE IF job.status = FAILED
    THEN [jobId |-> job.id, status |-> job.status, error |-> ErrorText(job)]
    ELSE [jobId |-> job.id, status |-> job.status]

\* generateDownloadUrl(bucket, key): a signed GET URL for the key.
generateDownloadUrl(key) == [method |-> "GET", key |-> key, expiresIn |-> ExpiresIn]

\* The download body with a 'still processing' test that leaves PENDING out.
DownloadResponseProcessingOnly(job) ==
  IF job = NoRow THEN NotFound
  ELSE IF job.status = PROCESSING
    THEN [statusCode |-> 202, status |-> job.status,
          message |-> "Document is still being processed"]
  ELSE IF job.status = FAILED
    THEN [statusCode |-> 400, status |-> FAILED, error |-> ErrorText(job)]
    ELSE [statusCode |-> 200, status |-> COMPLETED,
          downloadUrl |-> generateDownloadUrl(job.outputFileKey)]

\* The body of downloadJobResult and of downloadGuestJobResult after the lookup.
DownloadResponse(job) ==
  IF job = NoRow THEN NotFound
  ELSE IF job.status = PROCESSING \/ job.status = PENDING
    THEN [statusCode |-> 202, status |-> job.status,
          message |-> "Document is still being processed"]
  ELSE IF job.status = FAILED
    THEN [statusCode |-> 400, status |-> FAILED, error |-> ErrorText(job)]
    ELSE [statusCode |-> 200, status |-> COMPLETED,
          downloadUrl |-> generateDownloadUrl(job.outputFileKey)]

\* A read that empties the queue as it answers.
RespondPurgingQueue(r) ==
  resp' = r /\ queue' = <<>> /\ UNCHANGED <<jobs, workers, s3, sent, grants>>

Respond(r) == resp' = r /\ UNCHANGED <<jobs, queue, workers, s3, sent, grants>>

\* GET /jobs/:id/status (JwtAuthGuard: req.user.userId is a principal)
getJobStatus(userId, jobId) == Respond(StatusResponse(getJobById(jobId, userId)))

\* GET /jobs/guest/:id/status
getGuestJobStatus(jobId) == Respond(StatusResponse(getJobById(jobId, NoUser)))

\* GET /jobs/:id/download (JwtAuthGuard)
downloadJobResult(userId, jobId) == Respond(DownloadResponse(getJobById(jobId, userId)))

\* GET /jobs/guest/:id/download
downloadGuestJobResult(jobId) == Respond(DownloadResponse(getJobById(jobId, NoUser)))

\* ----------------------------------------------------------------- upload
UploadTokens == 1 .. MaxGrants

\* uuid() handing out a value it has handed out before.
UploadUuidRepeating == UploadTokens

\* uuid() in UploadService: a value no earlier key carries.
UploadUuid == UploadTokens \ {k[2] : k \in grants}

\* `uploads/${uuid()}-${fileName}`
UploadKey(token, fileName) == <<"uploads/", token, "-", fileName>>

\* getSignedUrl(s3Client, new PutObjectCommand({Bucket, Key, ContentType}),
\*              {expiresIn: 300})
PutSignedUrl(key, contentType) ==
  [method |-> "PUT", key |-> key, contentType |-> contentType,
   expiresIn |-> UploadExpiresIn]

\* UploadService.getPresignedUrl(fileName, contentType): returns {url, key}.
ServiceGetPresignedUrl(fileName, contentType) ==
  /\ Cardinality(grants) < MaxGrants
  /\ \E token \in UploadUuid :
       LET key == UploadKey(token, fileName) IN
       /\ resp' = [url |-> PutSignedUrl(key, contentType), key |-> key]
       /\ grants' = grants \cup {key}
  /\ UNCHANGED <<jobs, queue, workers, s3, sent>>

UploadBodies == [fileName : FileNames, contentType : ContentTypes]

\* POST /upload/presigned-url (JwtAuthGuard)
getPresignedUrl ==
  \E u \in Users, body \in UploadBodies :
    ServiceGetPresignedUrl(body.fileName, body.contentType)

\* POST /upload/guest-presigned-url
getGuestPresignedUrl ==
  \E body \in UploadBodies :
    ServiceGetPresignedUrl(body.fileName, body.contentType)

\* ------------------------------------------------------------------- init
NoResponse == [kind |-> "none"]

\* The service as deployed: an empty jobs table, an empty queue, one consumer.
Init ==
  /\ jobs = <<>>
  /\ queue = <<>>
  /\ workers = [w \in OneConsumer |-> IdleWorker]
  /\ s3 = {}
  /\ sent = {}
  /\ resp = NoResponse
  /\ grants = {}

Submissions ==
  \/ createJob
  \/ createGuestJob

Reads ==
  \/ \E u \in Users, id \in JobIds : getJobStatus(u, id)
  \/ \E id \in JobIds : getGuestJobStatus(id)
  \/ \E u \in Users, id \in JobIds : downloadJobResult(u, id)
  \/ \E id \in JobIds : downloadGuestJobResult(id)

Consumer ==
  \/ \E w \in DOMAIN workers, m \in JobIds : Receive(w, m)
  \/ \E w \in DOMAIN workers : WorkerStep(w)

\* What SQS and the host do to a consumer: leases run out, messages are
\* dead-lettered, processes die.
Faults ==
  \/ \E m \in JobIds : LeaseExpire(m)
  \/ \E m \in JobIds : DeadLetter(m)
  \/ \E w \in DOMAIN workers : Crash(w)

\* The API and one consumer, every message delivered once.
Next ==
  \/ Submissions
  \/ Reads
  \/ Consumer

Spec == Init /\ [][Next]_vars

\* The HTTP API alone: JobsController with no consumer on the queue.
ApiNext ==
  \/ Submissions
  \/ Reads

ApiSpec == Init /\ [][ApiNext]_vars

\* One job submitted through POST /jobs or POST /jobs/guest, and two
\* consumers on the queue, which delivers at least once.
PipelineInit ==
  \E u \in Users \cup {NoUser}, body \in Bodies :
    LET job == NewJob(1, u, body.inputFileKey, body.documentType) IN
    /\ CreateJobDtoValid(body)
    /\ jobs = Save(<<>>, job)
    /\ queue = Enqueue(<<>>, Payload(job))
    /\ workers = [w \in TwoConsumers |-> IdleWorker]
    /\ s3 = {}
    /\ sent = {job.id}
    /\ resp = [jobId |-> job.id, status |-> job.status]
    /\ grants = {}

PipelineNext ==
  \/ Consumer
  \/ Faults

PipelineSpec == PipelineInit /\ [][PipelineNext]_vars

\* The same, with consumers that keep polling and stepping and a queue that
\* keeps expiring leases and dead-lettering; a crash is never owed.
Fairness ==
  /\ \A w \in TwoConsumers : WF_vars(WorkerStep(w))
  /\ \A w \in TwoConsumers : WF_vars(\E m \in JobIds : Receive(w, m))
  /\ \A m \in JobIds : WF_vars(LeaseExpire(m))
  /\ \A m \in JobIds : WF_vars(DeadLetter(m))

FairPipelineSpec == PipelineSpec /\ Fairness

\* Submissions alone, over input keys of every shape.
ExtensionBodies == [inputFileKey : ExtensionKeys, documentType : DocumentTypes]

ExtensionNext ==
  \E u \in Users \cup {NoUser}, body \in ExtensionBodies : PostJob(u, body)

ExtensionSpec == Init /\ [][ExtensionNext]_vars

\* The upload endpoints alone: UploadController on UploadService.
UploadNext ==
  \/ getPresignedUrl
  \/ getGuestPresignedUrl

UploadSpec == Init /\ [][UploadNext]_vars

\* One job submitted, one consumer on the at-least-once queue, and the read
\* endpoints open to every requester while the job is processed.
ServiceInit ==
  \E u \in Users \cup {NoUser}, body \in Bodies :
    LET job == NewJob(1, u, body.inputFileKey, body.documentType) IN
    /\ CreateJobDtoValid(body)
    /\ jobs = Save(<<>>, job)
    /\ queue = Enqueue(<<>>, Payload(job))
    /\ workers = [w \in OneConsumer |-> IdleWorker]
    /\ s3 = {}
    /\ sent = {job.id}
    /\ resp = [jobId |-> job.id, status |-> job.status]
    /\ grants = {}

ServiceNext ==
  \/ Reads
  \/ Consumer
  \/ Faults

ServiceSpec == ServiceInit /\ [][ServiceNext]_vars

\* Guest submissions and one consumer on the at-least-once queue: jobs arrive
\* while earlier messages are leased, expire, are delivered again or
\* dead-lettered.
IntakeNext ==
  \/ createGuestJob
  \/ Consumer
  \/ Faults

IntakeSpec == Init /\ [][IntakeNext]_vars

\* ================================================================ claims
IsJob(j) == j \in DOMAIN jobs

\* C1: for every job, outputFileKey is set iff status is COMPLETED and
\* errorMessage is set iff status is FAILED, in every reachable state.
C1_OutputIffCompleted_ErrorIffFailed ==
  \A j \in DOMAIN jobs :
    /\ (jobs[j].outputFileKey # NULL) <=> (jobs[j].status = COMPLETED)
    /\ (jobs[j].errorMessage # NULL) <=> (jobs[j].status = FAILED)

\* C2: a job whose status is COMPLETED or FAILED keeps that status in every
\* later state.
C2_TerminalStatusNeverChanges ==
  [][\A j \in DOMAIN jobs :
       Terminal(jobs[j].status) => jobs'[j].status = jobs[j].status]_vars

\* The transition table of the job status.
TransitionTable ==
  { <<PENDING, PROCESSING>>, <<PROCESSING, COMPLETED>>,
    <<PROCESSING, FAILED>>, <<PENDING, FAILED>> }

\* C3: every change of a job's status is a transition of the table, and a
\* new job starts PENDING.
C3_OnlyTableTransitions ==
  [][\A j \in DOMAIN jobs' :
       IF j \in DOMAIN jobs
         THEN \/ jobs'[j].status = jobs[j].status
              \/ <<jobs[j].status, jobs'[j].status>> \in TransitionTable
         ELSE jobs'[j].status = PENDING]_vars

\* C7: a consumer that received a message whose job was already terminal
\* (a second delivery after the first was fully processed) makes no external
\* call and leaves status, outputFileKey and errorMessage as they are: its
\* only steps are to acknowledge the message, or to die.
C7_DuplicateDeliveryIsNoOp ==
  [][\A w \in DOMAIN workers :
       (workers[w].dup /\ workers'[w] # workers[w])
         => /\ jobs' = jobs
            /\ s3' = s3
            /\ workers'[w].pc \in {"delete", "idle"}]_vars

InDlq(j) == j \in DOMAIN queue /\ queue[j].state = "dlq"

Requesters == Users \cup {NoUser}

\* C4: a valid submission that returns a job returns it PENDING, with an id
\* that no job created before carries.
C4_ReturnedJobPendingWithFreshId ==
  [][\A u \in Requesters, body \in Bodies :
       (jobs' # jobs /\ resp' # InternalError /\ PostJob(u, body))
         => /\ resp'.status = PENDING
            /\ resp'.jobId \notin DOMAIN jobs
            /\ resp'.jobId \in DOMAIN jobs']_vars

\* C4 witness: a second submission has returned its job while the first
\* job is in the table.
C4_Witness ==
  \E j \in DOMAIN jobs :
    /\ resp = [jobId |-> j, status |-> PENDING]
    /\ DOMAIN jobs # {j}

OwnedByUser(j) == IsJob(j) /\ jobs[j].userId \in Users
OwnedByGuest(j) == IsJob(j) /\ jobs[j].userId = GUEST

GuestRead(j) == getGuestJobStatus(j) \/ downloadGuestJobResult(j)
UserRead(q, j) == getJobStatus(q, j) \/ downloadJobResult(q, j)

\* C5: every status or download read of a principal's job by another
\* identity, a different principal on the authenticated endpoints or nobody
\* on the guest endpoints, returns not-found.
C5_OwnedJobHiddenFromOthers ==
  [][\A j \in JobIds :
       OwnedByUser(j)
         => /\ GuestRead(j) => resp' = NotFound
            /\ \A q \in Users \ {jobs[j].userId} :
                 UserRead(q, j) => resp' = NotFound]_vars

C9_InvalidCategoryRejectedWithoutEffect ==
  [][\A u \in Requesters, body \in Bodies :
       (body.documentType \notin DocumentTypes /\ PostJob(u, body))
         => /\ resp' = BadRequest(body)
            /\ jobs' = jobs
            /\ queue' = queue
            /\ sent' = sent]_vars

\* C9 witness: a body with a bad documentType was rejected after a job had
\* been submitted.
C9_Witness ==
  /\ resp \in {BadRequest(b) : b \in Bodies}
  /\ "documentType" \in resp.message
  /\ DOMAIN jobs # {}

\* C10: a job whose send failed stays in the table, PENDING, with no message
\* in the queue, and the submission that failed answered with an error.
C10_SendFailureLeavesPendingRow ==
  /\ \A j \in DOMAIN jobs :
       j \notin sent => jobs[j].status = PENDING /\ j \notin DOMAIN queue
  /\ resp = InternalError => \E j \in DOMAIN jobs : j \notin sent

\* C10 witness: the submission has just failed on the send.
C10_Witness ==
  /\ resp = InternalError
  /\ \E j \in DOMAIN jobs : j \notin sent /\ jobs[j].status = PENDING

\* checkOwnership of the specification: the job's owner is the requester's
\* resolved identity, or the job is a guest job.
CheckOwnership(job, identity) == job.userId = identity \/ job.userId = GUEST

IsUrl(r) == "downloadUrl" \in DOMAIN r

\* What a download read of job j that returned a URL must have found, for a
\* requester q (NoUser: no credentials).
UrlDeserved(q, j) ==
  /\ IsJob(j)
  /\ jobs[j].status = COMPLETED
  /\ jobs[j].outputFileKey # NULL
  /\ CheckOwnership(jobs[j], OwnerOf(q))

\* C11: a download read returns a presigned URL only when the job is
\* COMPLETED, has an outputFileKey, and passes the ownership check for the
\* requester; every other download read returns something else.
C11_UrlOnlyForCompletedOwnedJob ==
  [][\A j \in JobIds :
       /\ (downloadGuestJobResult(j) /\ IsUrl(resp')) => UrlDeserved(NoUser, j)
       /\ \A q \in Users :
            (downloadJobResult(q, j) /\ IsUrl(resp')) => UrlDeserved(q, j)]_vars

\* A download read of job j by requester q: the authenticated endpoint for a
\* principal, the guest endpoint for a request without credentials.
DownloadBy(q, j) ==
  IF q = NoUser THEN downloadGuestJobResult(j) ELSE downloadJobResult(q, j)

\* The job is visible to the requester: the handler's lookup returns it.
Visible(q, j) == getJobById(j, q) # NoRow

StillProcessing(r) ==
  /\ DOMAIN r = {"statusCode", "status", "message"}
  /\ r.statusCode = 202
  /\ r.message = "Document is still being processed"

FailedOutcome(r) == "error" \in DOMAIN r

\* C12: a download read of a visible job that is PENDING or PROCESSING
\* returns the 'still processing' outcome, the same for both statuses, which
\* is neither not-found nor the failed outcome nor a URL.
C12_DownloadBeforeCompletionStillProcessing ==
  [][\A j \in JobIds, q \in Requesters :
       (/\ Visible(q, j)
        /\ jobs[j].status \in {PENDING, PROCESSING}
        /\ DownloadBy(q, j))
         => /\ StillProcessing(resp')
            /\ resp' # NotFound
            /\ ~FailedOutcome(resp')
            /\ ~IsUrl(resp')]_vars

\* C12 witness: the download of a job that is being processed a second
\* time, its first result still recorded, was answered 'still processing'.
C12_Witness ==
  \E j \in DOMAIN jobs :
    /\ jobs[j].status = PROCESSING
    /\ jobs[j].outputFileKey # NULL
    /\ StillProcessing(resp)
    /\ resp.status = PROCESSING

\* Textract raised an error while job j was processed: the catch block
\* recorded its message in the row.
ExtractionFailed(j) == IsJob(j) /\ jobs[j].errorMessage = <<"Textract error">>

\* C13: a job for which Textract raised an error is FAILED with an
\* errorMessage from then on, and every download read of it returns the
\* failed outcome, never a URL.
C13_ExtractionErrorEndsFailed ==
  [][\A j \in JobIds :
       ExtractionFailed(j)
         => /\ jobs[j].status = FAILED
            /\ jobs[j].errorMessage # NULL
            /\ \A q \in Requesters :
                 (Visible(q, j) /\ DownloadBy(q, j))
                   => FailedOutcome(resp') /\ ~IsUrl(resp')]_vars

\* What the status and the download handler return to requester q for id j
\* in the current state.
StatusRead(q, j) == StatusResponse(getJobById(j, q))
DownloadRead(q, j) == DownloadResponse(getJobById(j, q))

\* C14: to a requester that fails the ownership check of job j, a status
\* read and a download read of j return what they return for an id with no
\* job, whatever the job's state.
C14_NonOwnedJobLooksAbsent ==
  \A j \in DOMAIN jobs, q \in Requesters :
    ~CheckOwnership(jobs[j], OwnerOf(q))
      => /\ StatusRead(q, j) = StatusResponse(NoRow)
         /\ DownloadRead(q, j) = DownloadResponse(NoRow)

\* C15: no step changes the id, inputFileKey, inputFileType, documentType
\* or userId of a job that is in the table: not the consumer's status
\* updates, not a read, not a further submission.
C15_CreationFieldsNeverChange ==
  [][\A j \in DOMAIN jobs :
       j \in DOMAIN jobs'
         => /\ jobs'[j].id = jobs[j].id
            /\ jobs'[j].inputFileKey = jobs[j].inputFileKey
            /\ jobs'[j].inputFileType = jobs[j].inputFileType
            /\ jobs'[j].documentType = jobs[j].documentType
            /\ jobs'[j].userId = jobs[j].userId]_vars

\* C15 witness: a principal's job was processed to the end, a further job
\* was submitted, and the first job was read.
C15_Witness ==
  \E j \in DOMAIN jobs :
    /\ jobs[j].status = COMPLETED
    /\ jobs[j].userId \in Users
    /\ jobs[j].id = j
    /\ DOMAIN jobs # {j}
    /\ IsUrl(resp)

\* C16: a job submitted by a principal is stored with that principal's id
\* as userId, a job submitted without a principal with 'guest', and no row
\* carries any other userId.
C16_OwnerIsPrincipalOrGuest ==
  [][\A u \in Requesters, body \in Bodies :
       (jobs' # jobs /\ PostJob(u, body))
         => /\ \A j \in DOMAIN jobs' \ DOMAIN jobs :
                 jobs'[j].userId = IF u \in Users THEN u ELSE GUEST
            /\ \A j \in DOMAIN jobs' : jobs'[j].userId \in Users \cup {GUEST}]_vars

\* C16 witness: the table holds a principal's job and a guest job.
C16_Witness ==
  /\ \E j \in DOMAIN jobs : jobs[j].userId \in Users
  /\ \E j \in DOMAIN jobs : jobs[j].userId = GUEST

Statuses == {PENDING, PROCESSING, COMPLETED, FAILED}

\* A status read of job j by requester q: the authenticated endpoint for a
\* principal, the guest endpoint for a request without credentials.
StatusBy(q, j) ==
  IF q = NoUser THEN getGuestJobStatus(j) ELSE getJobStatus(q, j)

\* C17: the status of every stored job is PENDING, PROCESSING, COMPLETED or
\* FAILED in every reachable state; a status read of a job visible to the
\* requester returns the job's status, one of the four, and a status read of
\* any other id returns not-found.
C17_StatusReadReturnsOneOfFourOrNotFound ==
  /\ [](\A j \in DOMAIN jobs : jobs[j].status \in Statuses)
  /\ [][\A j \in JobIds, q \in Requesters :
          StatusBy(q, j)
            => IF Visible(q, j)
                 THEN /\ resp' # NotFound
                      /\ resp'.jobId = j
                      /\ resp'.status = jobs[j].status
                      /\ resp'.status \in Statuses
                 ELSE resp' = NotFound]_vars

\* C17 witness: the status read of a failed job returned FAILED with the
\* recorded error.
C17_Witness ==
  \E j \in DOMAIN jobs :
    /\ jobs[j].status = FAILED
    /\ resp = [jobId |-> j, status |-> FAILED, error |-> jobs[j].errorMessage]

\* The owner of job j reads it: a principal on the authenticated endpoints,
\* the submitter of a guest job on the guest endpoints.
OwnerSees(j) ==
  /\ IsJob(j)
  /\ Visible(IF jobs[j].userId = GUEST THEN NoUser ELSE jobs[j].userId, j)

\* C18: no step removes a row of the jobs table, and a job its owner can
\* read is one its owner can read after every step.
C18_JobsNeverRemoved ==
  [][/\ DOMAIN jobs \subseteq DOMAIN jobs'
     /\ \A j \in JobIds : OwnerSees(j) => OwnerSees(j)']_vars

\* C18 witness: a job that failed is in the table with a job submitted
\* after its message was acknowledged.
C18_Witness ==
  \E j \in DOMAIN jobs, k \in DOMAIN jobs :
    /\ jobs[j].status = FAILED
    /\ j \notin DOMAIN queue
    /\ jobs[k].status = PENDING
    /\ OwnerSees(j)

IsGrant(r) == DOMAIN r = {"url", "key"}

\* C19: an upload grant for file name f returns the key uploads/<token>-f
\* with a token no earlier grant carried, so the key differs from every key
\* returned before, for f or any other name, and its URL is a PUT URL for
\* that key valid for 300 seconds.
C19_UploadGrantKeyFreshAndBounded ==
  [][\A body \in UploadBodies :
       ServiceGetPresignedUrl(body.fileName, body.contentType)
         => /\ \E token \in UploadTokens :
                 /\ resp'.key = UploadKey(token, body.fileName)
                 /\ \A k \in grants : k[2] # token
            /\ resp'.key \notin grants
            /\ resp'.url.key = resp'.key
            /\ resp'.url.method = "PUT"
            /\ resp'.url.expiresIn = 300]_vars

\* C19 witness: two grants for the same file name have been issued.
C19_Witness ==
  /\ IsGrant(resp)
  /\ \E k \in grants : k # resp.key /\ k[4] = resp.key[4]

\* The job of the message consumer w holds is absent from the table or
\* already COMPLETED or FAILED.
NothingToDo(w) ==
  \/ ~IsJob(workers[w].jobId)
  \/ Terminal(jobs[workers[w].jobId].status)

\* C20: a consumer at the start of processMessage whose job is absent or
\* terminal goes on to acknowledge the message (or dies) and nothing else:
\* it writes no status, calls neither S3 nor Textract nor the exporter, and
\* stores nothing.
C20_AbsentOrTerminalJobOnlyAcknowledged ==
  [][\A w \in DOMAIN workers :
       (/\ workers[w].pc = "markProcessing"
        /\ NothingToDo(w)
        /\ workers'[w] # workers[w])
         => /\ jobs' = jobs
            /\ s3' = s3
            /\ workers'[w].pc \in {"delete", "idle"}]_vars

\* Two consumers hold deliveries of the message of job j at once.
HeldByTwo(j) ==
  \E v, w \in DOMAIN workers :
    /\ v # w
    /\ workers[v].pc # "idle" /\ workers[v].jobId = j
    /\ workers[w].pc # "idle" /\ workers[w].jobId = j

\* C21: while two consumers process deliveries of the same message, a
\* terminal status written by one is not overwritten by the other: the
\* status stays, and a recorded outputFileKey is neither cleared nor replaced.
C21_ConcurrentWorkersKeepTerminalState ==
  [][\A j \in DOMAIN jobs :
       (HeldByTwo(j) /\ Terminal(jobs[j].status))
         => /\ jobs'[j].status = jobs[j].status
            /\ jobs'[j].outputFileKey = jobs[j].outputFileKey]_vars

\* One of the four external calls of processMessage throws.
ExternalStepFails(w) ==
  \/ Download(w, FALSE)
  \/ Textract(w, FALSE)
  \/ Convert(w, FALSE)
  \/ Upload(w, FALSE)

\* The message of job j will not be delivered again: it was deleted, or it
\* sits in the dead-letter queue.
OutOfDelivery(j) == j \notin DOMAIN queue \/ InDlq(j)

\* C22: a consumer that got through download, Textract, export and upload
\* writes COMPLETED with the outputFileKey; one for which a call threw
\* writes FAILED with the error's message; after either write it deletes
\* the message, which is then never delivered again.
C22_ProcessingEndsTerminalAndAcknowledged ==
  [][/\ \A w \in DOMAIN workers, j \in JobIds :
          workers[w].jobId = j =>
          /\ MarkCompleted(w, TRUE)
               => /\ jobs'[j].status = COMPLETED
                  /\ jobs'[j].outputFileKey = OutputKey(j)
                  /\ workers'[w].pc = "delete"
          /\ ExternalStepFails(w)
               => /\ workers'[w].pc = "markFailed"
                  /\ workers'[w].err # NULL
          /\ MarkFailed(w)
               => /\ jobs'[j].status = FAILED
                  /\ jobs'[j].errorMessage = workers[w].err
                  /\ jobs'[j].errorMessage # NULL
                  /\ workers'[w].pc = "delete"
          /\ Delete(w)
               => /\ Terminal(jobs[j].status)
                  /\ OutOfDelivery(j)'
     /\ \A j \in sent : OutOfDelivery(j) => OutOfDelivery(j)']_vars

\* C22 witness: a job was completed on a second delivery and its message
\* deleted.
C22_Witness ==
  \E j \in sent :
    /\ jobs[j].status = COMPLETED
    /\ j \notin DOMAIN queue
    /\ \A w \in DOMAIN workers : workers[w].pc = "idle"

\* A consumer that polls can be handed message m.
Deliverable(m) ==
  /\ m \in DOMAIN queue
  /\ queue[m].state = "visible"
  /\ queue[m].receiveCount < MaxReceiveCount

\* Message m has had its last delivery: it waits for the redrive policy.
Exhausted(m) ==
  /\ m \in DOMAIN queue
  /\ queue[m].state = "visible"
  /\ queue[m].receiveCount >= MaxReceiveCount

\* A message is in the queue until a consumer deletes it or the redrive
\* policy moves it: a receive and a crash of its holder leave it there.
LeavesOnlyByDeleteOrDeadLetter ==
  /\ \A m \in DOMAIN queue :
       /\ m \notin DOMAIN queue'
            => \E w \in DOMAIN workers : workers[w].jobId = m /\ Delete(w)
       /\ (~InDlq(m) /\ InDlq(m)') => DeadLetter(m)
  /\ \A w \in DOMAIN workers :
       /\ \A m \in JobIds : Receive(w, m) => (m \in DOMAIN queue' /\ ~InDlq(m)')
       /\ Crash(w) => queue' = queue

Permanent(err) == err \in {<<"Textract error">>, <<"Excel error">>}
Transient(err) == err \in {<<"S3 error">>, <<"DB error">>}

\* The message of job j is out of delivery and no consumer holds it.
Settled(j) ==
  /\ OutOfDelivery(j)
  /\ \A w \in DOMAIN workers : workers[w].jobId # j

\* C25: a consumer that caught a permanent error writes FAILED with the
\* error's message on that attempt and then deletes the message; once the
\* message is gone the job is not touched again.
C25_PermanentErrorFailsAtOnce ==
  [][\A w \in DOMAIN workers, j \in JobIds :
       /\ (/\ workers[w].jobId = j
            /\ workers[w].pc = "markFailed"
            /\ Permanent(workers[w].err)
            /\ WorkerStep(w))
             => /\ jobs'[j].status = FAILED
                /\ jobs'[j].errorMessage = workers[w].err
                /\ workers'[w].pc = "delete"
       /\ (/\ workers[w].jobId = j
            /\ jobs[j].status = FAILED
            /\ Permanent(jobs[j].errorMessage)
            /\ Delete(w))
             => Settled(j)'
       /\ (/\ j \in sent
            /\ Settled(j)
            /\ jobs[j].status = FAILED
            /\ Permanent(jobs[j].errorMessage))
             => (jobs'[j] = jobs[j] /\ Settled(j)')]_vars

\* C25 witness: the first delivery hit a Textract error; the job is FAILED
\* with it and the message is deleted.
C25_Witness ==
  \E j \in sent :
    /\ jobs[j].status = FAILED
    /\ jobs[j].errorMessage = <<"Textract error">>
    /\ j \notin DOMAIN queue
    /\ \A w \in DOMAIN workers : workers[w].pc = "idle"

\* C26: a consumer that caught a transient error leaves the job's status
\* alone and does not go on to delete the message, which stays in the queue
\* for a redelivery.
C26_TransientErrorLeftForRedelivery ==
  [][\A w \in DOMAIN workers, j \in JobIds :
       (/\ workers[w].jobId = j
        /\ workers[w].pc = "markFailed"
        /\ Transient(workers[w].err)
        /\ WorkerStep(w))
         => /\ jobs'[j].status = jobs[j].status
            /\ jobs'[j].status # FAILED
            /\ workers'[w].pc # "delete"
            /\ j \in DOMAIN queue']_vars

\* C27: once a job has an outputFileKey no step writes the column again and
\* its value stays; once a job has an errorMessage no step writes that
\* column again and its value stays.
C27_OutputAndErrorWrittenOnce ==
  [][\A j \in DOMAIN jobs :
       /\ jobs[j].outputFileKey # NULL
            => /\ jobs'[j].outputFileKey = jobs[j].outputFileKey
               /\ \A w \in DOMAIN workers :
                    workers[w].jobId = j => ~MarkCompleted(w, TRUE)
       /\ jobs[j].errorMessage # NULL
            => /\ jobs'[j].errorMessage = jobs[j].errorMessage
               /\ \A w \in DOMAIN workers :
                    workers[w].jobId = j => ~MarkFailed(w)]_vars

HasDelimiter(key) == \E i \in 1 .. Len(key) : key[i] = "."

\* What follows the last "." of a key that has one.
Suffix(key) ==
  LET last == CHOOSE i \in 1 .. Len(key) :
                /\ key[i] = "."
                /\ \A k \in (i + 1) .. Len(key) : key[k] # "."
  IN SubSeq(key, last + 1, Len(key))

\* The inputFileType the claim gives a key: its suffix after the last ".",
\* 'unknown' when it has no "." (or nothing after it).
ExpectedKind(key) ==
  IF HasDelimiter(key) /\ Suffix(key) # <<>> THEN Suffix(key) ELSE <<"unknown">>

\* C28: every job's inputFileType is the suffix of its inputFileKey after
\* the last ".", and 'unknown' when the key has no extension.
C28_InputKindIsSuffixOrUnknown ==
  \A j \in DOMAIN jobs :
    jobs[j].inputFileType = ExpectedKind(jobs[j].inputFileKey)
\* A step in which the submission of job id succeeded: the row is new and its
\* message was sent.
Submitted(id) ==
  /\ id \notin DOMAIN jobs
  /\ id \in DOMAIN jobs'
  /\ id \in sent'

\* C29: a successful submission adds exactly one message to the queue and
\* touches no other; the body of that message is the JSON text whose jobId,
\* inputFileKey and documentType are the id, inputFileKey and documentType of
\* the row the same submission saved.
C29_SubmissionPublishesOneMessageOfTheRow ==
  [][\A id \in JobIds :
       Submitted(id) =>
         /\ id \notin DOMAIN queue
         /\ DOMAIN queue' = DOMAIN queue \cup {id}
         /\ \A m \in DOMAIN queue : queue'[m] = queue[m]
         /\ queue'[id].copies = 1
         /\ queue'[id].body =
              << "jobId", jobs'[id].id,
                 "inputFileKey", jobs'[id].inputFileKey,
                 "documentType", jobs'[id].documentType >>]_vars

\* Two submissions with different keys have succeeded, each with its one
\* message.
C29_Witness ==
  \E j, k \in DOMAIN jobs \cap sent :
    /\ jobs[j].inputFileKey # jobs[k].inputFileKey
    /\ j \in DOMAIN queue /\ queue[j].copies = 1
    /\ k \in DOMAIN queue /\ queue[k].copies = 1

\* C30: a consumer lets go of the message of job j only at the delete that
\* follows processMessage, with the job's terminal status written: it never
\* stops while the message is partly processed.
C30_ConsumerStopsOnlyBetweenLeases ==
  [][\A w \in DOMAIN workers, j \in JobIds :
       (workers[w].jobId = j /\ workers'[w].jobId # j) =>
         /\ workers[w].pc = "delete"
         /\ IsJob(j)
         /\ Terminal(jobs[j].status)]_vars

\* The job a message names, as the consumer reads it from the body.
JobOfMessage(m) == JsonParse(queue[m].body).jobId

\* C31: every message of the queue, visible, in flight or dead-lettered,
\* names a job that has a row in the table.
C31_EveryMessageNamesAStoredJob ==
  \A m \in DOMAIN queue : JobOfMessage(m) \in DOMAIN jobs

\* One message is dead-lettered and another is in flight or visible, each
\* with its row.
C31_Witness ==
  \E m, n \in DOMAIN queue :
    /\ queue[m].state = "dlq"
    /\ queue[n].state # "dlq"
    /\ JobOfMessage(m) \in DOMAIN jobs
    /\ JobOfMessage(n) \in DOMAIN jobs

\* The row of job j carries exactly the userId q.
OwnedBy(q, j) == IsJob(j) /\ jobs[j].userId = q

\* C32: getJobById with a userId returns the row of that id when the row's
\* userId is that userId and null otherwise; a status or download read on
\* the authenticated endpoints of a job whose userId is anything else,
\* 'guest' included, answers not-found.
C32_LookupWithUserIdMatchesOwnerExactly ==
  /\ [](\A q \in Users, j \in JobIds :
          getJobById(j, q) = IF OwnedBy(q, j) THEN jobs[j] ELSE NoRow)
  /\ [][\A q \in Users, j \in JobIds :
          (UserRead(q, j) /\ ~OwnedBy(q, j)) => resp' = NotFound]_vars

\* Every id has a row, one of them owned by 'guest' and one by a principal,
\* and a read has just answered not-found: an authenticated read of a row
\* the principal does not own.
C32_Witness ==
  /\ DOMAIN jobs = JobIds
  /\ \E j \in DOMAIN jobs : jobs[j].userId = GUEST
  /\ \E j \in DOMAIN jobs : jobs[j].userId \in Users
  /\ resp = NotFound

C34_DeletedMessageHasTerminalJob ==
  [][\A w \in DOMAIN workers, j \in JobIds :
       (/\ workers[w].jobId = j
        /\ Delete(w)
        /\ j \in DOMAIN queue
        /\ j \notin DOMAIN queue')
         => (~IsJob(j) \/ Terminal(jobs[j].status))]_vars

\* C35: a status read or a download read, of any id by any requester, with
\* or without credentials, leaves the jobs table and the queue as they were.
C35_ReadsChangeNeitherTableNorQueue ==
  [][\A q \in Requesters, j \in JobIds :
       (StatusBy(q, j) \/ DownloadBy(q, j))
         => /\ jobs' = jobs
            /\ queue' = queue]_vars

\* A read has answered not-found while the job is PROCESSING with its
\* message in flight.
C35_Witness ==
  /\ resp = NotFound
  /\ \E j \in DOMAIN jobs \cap DOMAIN queue :
       /\ jobs[j].status = PROCESSING
       /\ queue[j].state = "inflight"

====
